---- MODULE Spec2Model ----
(***************************************************************************)
(* Model of the two generator scripts of Cloudflare-Random-Image:          *)
(*   gen.py        primary store dist/all plus symlinked category stores   *)
(*   gen_image.py  "shadow copy" variant, every partition converted        *)
(* A run is one execution of main(); each action is one statement group of *)
(* main() together with every call it makes.  The file system is a         *)
(* function from paths (sequences of path components, relative to the      *)
(* working directory) to entries.  Pillow is taken to be installed.        *)
(***************************************************************************)
EXTENDS Integers, Sequences, FiniteSets, TLC

VARIABLES
    prog,           \* which script runs: "gen" or "gen_image"
    source_exists,  \* SOURCE_DIR.exists()
    images,         \* the files rglob yields, in order: [orient, conv]
    symlink_ok,     \* whether os.symlink succeeds on this platform
    fs,             \* the file system: path -> entry
    pc,             \* position of main()
    step,           \* index of the next write_files call of main()
    all_imgs,       \* main(): all_imgs
    landscape,      \* main(): landscape
    portrait,       \* main(): portrait
    item_count,     \* argument item_count of the last calculate_hex_len call
    min_len,        \* argument min_len of the last calculate_hex_len call
    hex_len,        \* main(): hex_len (0 while unset)
    all_map,        \* main(): all_map, source_path -> path in dist/all
    slots,          \* per partition, the buckets and names of its last fill
    written,        \* partitions whose write call has returned, in order
    stdout          \* what the run has printed, as a set of messages

vars == <<prog, source_exists, images, symlink_ok, fs, pc, step, all_imgs,
          landscape, portrait, item_count, min_len, hex_len, all_map, slots,
          written, stdout>>

(***************************************************************************)
(* Bounds of the model.                                                    *)
(***************************************************************************)
MaxItems == 3       \* source trees of 0..MaxItems files, every classification
BigCount == 17      \* one larger tree size, so that one hex digit is too few
MaxCount == 4100    \* item counts given to the sizer alone
MaxFloor == 3       \* floors given to the sizer alone

(***************************************************************************)
(* Program constants.                                                      *)
(***************************************************************************)
MIN_HEX_LEN == 1
HexBase == 16
HAS_PILLOW == TRUE
CONVERT_WEBP == TRUE
FILE_EXT == ".webp"
DEFAULT_EXT == ".jpg"
OUTPUT_DIR == <<"dist">>

Parts == {"all", "l", "p"}

(***************************************************************************)
(* Arithmetic.                                                             *)
(***************************************************************************)
RECURSIVE Pow(_, _)
Pow(b, e) == IF e = 0 THEN 1 ELSE b * Pow(b, e - 1)

Max(a, b) == IF a >= b THEN a ELSE b

\* floor(log_b(n)) for n >= 1: the largest k with b^k <= n.
RECURSIVE FloorLog(_, _)
FloorLog(n, b) == IF n < b THEN 0 ELSE 1 + FloorLog(n \div b, b)

floor_log(n, b) == FloorLog(n, b)

\* math.ceil(math.log(n, b)) for n >= 1.  In binary64 the quotient
\* log(n)/log(16) is an integer exactly when n is a power of 16 and lies
\* strictly between integers otherwise for every n below 16^13, which no
\* directory listing reaches; in that range the ceiling is the exact one.
ceil_log(n, b) ==
    LET f == FloorLog(n, b)
    IN  IF Pow(b, f) = n THEN f ELSE f + 1

calculate_hex_len_floor_only(count, floor) == floor

calculate_hex_len(count, floor) ==
    IF count = 0 THEN floor
    ELSE LET needed == ceil_log(count, HexBase)
         IN  Max(floor, needed)

(***************************************************************************)
(* Hexadecimal names: f"{i:0{hex_len}x}".                                  *)
(***************************************************************************)
LowerHex == <<"0", "1", "2", "3", "4", "5", "6", "7",
              "8", "9", "a", "b", "c", "d", "e", "f">>
UpperHex == <<"0", "1", "2", "3", "4", "5", "6", "7",
              "8", "9", "A", "B", "C", "D", "E", "F">>

\* format(i, "x"): the digits of i, most significant first, no padding.
RECURSIVE format_x(_)
format_x(i) ==
    IF i < HexBase THEN <<LowerHex[i + 1]>>
    ELSE Append(format_x(i \div HexBase), LowerHex[(i % HexBase) + 1])

\* the "0{width}" part of the format: zero fill on the left, no truncation.
RECURSIVE zero_fill(_, _)
zero_fill(digits, width) ==
    IF Len(digits) >= width THEN digits
    ELSE zero_fill(<<"0">> \o digits, width)

RECURSIVE format_X(_)
format_X(i) ==
    IF i < HexBase THEN <<UpperHex[i + 1]>>
    ELSE Append(format_X(i \div HexBase), UpperHex[(i % HexBase) + 1])

\* the same with the "X" presentation type
hex_name_upper(i, width) == zero_fill(format_X(i), width)

hex_name(i, width) == zero_fill(format_x(i), width)

\* the characters of a name joined into one path component
RECURSIVE Join(_)
Join(chars) == IF chars = <<>> THEN "" ELSE Head(chars) \o Join(Tail(chars))

target_filename(i, width, ext) == Join(hex_name(i, width)) \o ext

(***************************************************************************)
(* itertools.cycle over data_list and the bucket fill.                     *)
(***************************************************************************)
\* next(data_cycle): the element at the iterator's position and the
\* position after it, wrapping to the start when the list is exhausted.
cycle_next(data_list, pos) ==
    [item |-> data_list[pos],
     pos  |-> IF pos = Len(data_list) THEN 1 ELSE pos + 1]

\* The iterator's position after k calls of next.  The loop is split in
\* halves to keep the evaluation shallow; the test of the middle position
\* (positions start at 1) only makes the first half run before the second.
RECURSIVE cycle_advance(_, _, _)
cycle_advance(data_list, pos, k) ==
    IF k = 0 THEN pos
    ELSE IF k = 1 THEN cycle_next(data_list, pos).pos
    ELSE LET mid == cycle_advance(data_list, pos, k \div 2)
         IN  IF mid < 1 THEN mid
             ELSE cycle_advance(data_list, mid, k - (k \div 2))

\* the next `left` elements the iterator yields from position pos
RECURSIVE fill_from(_, _, _)
fill_from(data_list, pos, left) ==
    IF left = 0 THEN <<>>
    ELSE IF left = 1 THEN <<cycle_next(data_list, pos).item>>
    ELSE LET h   == left \div 2
             mid == cycle_advance(data_list, pos, h)
         IN  IF mid < 1 THEN <<>>
             ELSE fill_from(data_list, pos, h) \o fill_from(data_list, mid, left - h)

fill_buckets_restart(data_list, total_slots) ==
    [i \in 1..total_slots |-> data_list[IF i <= Len(data_list) THEN i ELSE 1]]

\* buckets[i] = next(data_cycle) for i in range(total_slots)
fill_buckets(data_list, total_slots) == fill_from(data_list, 1, total_slots)

total_slots_of(width) == Pow(HexBase, width)

(***************************************************************************)
(* Paths and the file system.                                              *)
(***************************************************************************)
File(b) == [kind |-> "file", bytes |-> b, target |-> <<>>]
Link(t) == [kind |-> "link", bytes |-> <<>>, target |-> t]
Dir == [kind |-> "dir", bytes |-> <<>>, target |-> <<>>]
Absent == [kind |-> "absent", bytes |-> <<>>, target |-> <<>>]

WebP(source_path) == <<"webp", source_path>>
Raw(source_path) == <<"raw", source_path>>

parent(path) == SubSeq(path, 1, Len(path) - 1)

IsPrefix(p, q) == Len(p) <= Len(q) /\ SubSeq(q, 1, Len(p)) = p

exists(f, path) == path = <<>> \/ path \in DOMAIN f

is_dir(f, path) == path = <<>> \/ (path \in DOMAIN f /\ f[path].kind = "dir")

\* writing an entry at a path, replacing what was there
put(f, path, entry) == (path :> entry) @@ f

\* shutil.rmtree(path)
rmtree(f, path) == [q \in {r \in DOMAIN f : ~IsPrefix(path, r)} |-> f[q]]

\* path.mkdir(parents=True)
mkdir_parents(f, path) ==
    LET made == {SubSeq(path, 1, k) : k \in 1..Len(path)} \ DOMAIN f
    IN  [q \in DOMAIN f \cup made |-> IF q \in made THEN Dir ELSE f[q]]

ensure_dir(f, path) ==
    mkdir_parents(IF exists(f, path) THEN rmtree(f, path) ELSE f, path)

\* os.path.normpath on components: ".." removes the component before it.
RECURSIVE norm_from(_, _)
norm_from(path, acc) ==
    IF path = <<>> THEN acc
    ELSE IF Head(path) = ".." /\ acc # <<>> /\ acc[Len(acc)] # ".."
         THEN norm_from(Tail(path), parent(acc))
         ELSE norm_from(Tail(path), Append(acc, Head(path)))

normpath(path) == norm_from(path, <<>>)

\* length of the longest common prefix of two paths
RECURSIVE common_len(_, _)
common_len(p, q) ==
    IF p = <<>> \/ q = <<>> \/ Head(p) # Head(q) THEN 0
    ELSE 1 + common_len(Tail(p), Tail(q))

\* os.path.relpath(path, start)
relpath(path, start) ==
    LET k == common_len(path, start)
    IN  [i \in 1..(Len(start) - k) |-> ".."] \o SubSeq(path, k + 1, Len(path))

\* the entry a path resolves to, following symbolic links
RECURSIVE resolve(_, _, _)
resolve(f, path, depth) ==
    IF path \notin DOMAIN f THEN Absent
    ELSE IF f[path].kind = "link" /\ depth > 0
         THEN resolve(f, normpath(parent(path) \o f[path].target), depth - 1)
         ELSE f[path]

MaxLinkDepth == 8

Resolve(f, path) == resolve(f, path, MaxLinkDepth)

(***************************************************************************)
(* The source tree.                                                        *)
(***************************************************************************)
\* orient: what Image.open(...).size says ("L" width > height, "P"
\* otherwise, "U" when the file cannot be opened); conv: whether the
\* conversion to WebP succeeds.  A file that cannot be opened cannot be
\* converted either.
Attr == {a \in [orient : {"L", "P", "U"}, conv : BOOLEAN] : a.orient = "U" => ~a.conv}

SmallTrees == UNION {[1..n -> Attr] : n \in 0..MaxItems}

BigTrees == {[i \in 1..BigCount |-> IF i % 2 = 1 THEN a ELSE b] : a \in Attr, b \in Attr}

SourceTrees == SmallTrees \cup BigTrees

conv_ok(source_path) == images[source_path].conv

StaleTree ==
    (<<"dist">> :> Dir) @@ (<<"dist", "all">> :> Dir)
    @@ (<<"dist", "all", "stale.webp">> :> File(<<"stale", 0>>))
    @@ (<<"dist", "l">> :> Dir)
    @@ (<<"dist", "l", "stale.webp">> :> File(<<"stale", 0>>))

EmptyTree == [q \in {} |-> Absent]

(***************************************************************************)
(* Output of the run on the terminal.                                      *)
(***************************************************************************)
Msg(m, part, n) == [msg |-> m, part |-> part, n |-> n]

(***************************************************************************)
(* gen.py                                                                  *)
(***************************************************************************)
scan_one_drop(acc, k) ==
    LET o == images[k].orient
    IN  [all |-> IF o = "L" THEN acc.all ELSE Append(acc.all, k),
         l   |-> IF o = "L" THEN Append(acc.l, k) ELSE acc.l,
         p   |-> IF o = "P" THEN Append(acc.p, k) ELSE acc.p,
         out |-> acc.out]

\* One round of the rglob loop of scan_images for file k.
scan_one(acc, k) ==
    LET o == images[k].orient
    IN  [all |-> Append(acc.all, k),
         l   |-> IF o = "L" THEN Append(acc.l, k) ELSE acc.l,
         p   |-> IF o = "P" THEN Append(acc.p, k) ELSE acc.p,
         out |-> IF o = "U" THEN acc.out \cup {Msg("could_not_open", "", k)}
                 ELSE acc.out]

RECURSIVE scan_from(_, _)
scan_from(k, acc) ==
    IF k > Len(images) THEN acc ELSE scan_from(k + 1, scan_one(acc, k))

NoScan == [all |-> <<>>, l |-> <<>>, p |-> <<>>, out |-> {}]

scan_images ==
    IF ~source_exists
    THEN [NoScan EXCEPT !.out = {Msg("source_missing", "", 0)}]
    ELSE scan_from(1, NoScan)

\* convert_and_save: the target is written when the conversion succeeds;
\* any exception is caught and printed.
convert_and_save(f, source_path, target_path) ==
    IF conv_ok(source_path) /\ is_dir(f, parent(target_path))
    THEN [fs |-> put(f, target_path, File(WebP(source_path))), ok |-> TRUE]
    ELSE [fs |-> f, ok |-> FALSE]

\* shutil.copy2(target, link_name): raises when the source is missing.
copy2(f, src, dst) ==
    LET e == Resolve(f, src)
    IN  IF e.kind = "file" /\ is_dir(f, parent(dst))
        THEN [fs |-> put(f, dst, File(e.bytes)), raised |-> FALSE]
        ELSE [fs |-> f, raised |-> TRUE]

\* create_symlink_or_copy: os.symlink creates the link whether or not its
\* target exists; on OSError the except branch copies, and an exception
\* of the copy leaves the function.
create_symlink_or_copy(f, target, link_name) ==
    IF symlink_ok /\ ~exists(f, link_name) /\ is_dir(f, parent(link_name))
    THEN [fs |-> put(f, link_name, Link(relpath(target, parent(link_name)))),
          raised |-> FALSE]
    ELSE copy2(f, target, link_name)

NoMap == [q \in {} |-> <<>>]

record_first(map, source_path, target_path) == map @@ (source_path :> target_path)

\* generated_map[source_path] = target_path
record_map(map, source_path, target_path) == (source_path :> target_path) @@ map

\* The body of the second loop of write_files for slot i.
write_slot(st, i, buckets, output_subdir, width, is_symlink_source, source_map) ==
    LET name        == hex_name(i, width)
        target_path == Append(output_subdir, target_filename(i, width, FILE_EXT))
        source_path == buckets[i + 1]
        named       == [st EXCEPT !.names = Append(st.names, name)]
    IN  IF is_symlink_source
        THEN LET c == convert_and_save(st.fs, source_path, target_path)
             IN  [named EXCEPT
                    !.fs  = c.fs,
                    !.map = record_map(st.map, source_path, target_path),
                    !.out = IF c.ok THEN st.out
                            ELSE st.out \cup {Msg("error_converting", "", source_path)}]
        ELSE IF source_map # NoMap /\ source_path \in DOMAIN source_map
             THEN LET a == create_symlink_or_copy(st.fs, source_map[source_path],
                                                  target_path)
                  IN  [named EXCEPT !.fs = a.fs, !.raised = a.raised]
             ELSE LET c == convert_and_save(st.fs, source_path, target_path)
                  IN  [named EXCEPT
                         !.fs  = c.fs,
                         !.out = (IF c.ok THEN st.out
                                  ELSE st.out \cup
                                       {Msg("error_converting", "", source_path)})
                                 \cup {Msg("not_in_all_map", "", source_path)}]

\* The second loop of write_files over slots i..total-1, left as soon as
\* an exception is raised (split in halves to keep the evaluation shallow).
RECURSIVE write_loop(_, _, _, _, _, _, _, _)
write_loop(st, i, total, buckets, output_subdir, width, is_symlink_source, source_map) ==
    IF i >= total \/ st.raised THEN st
    ELSE IF total = i + 1
    THEN write_slot(st, i, buckets, output_subdir, width, is_symlink_source, source_map)
    ELSE LET mid  == (i + total) \div 2
             half == write_loop(st, i, mid, buckets, output_subdir, width,
                                is_symlink_source, source_map)
         IN  IF half.raised THEN half
             ELSE write_loop(half, mid, total, buckets, output_subdir, width,
                             is_symlink_source, source_map)

write_start(f) ==
    [fs |-> f, map |-> NoMap, raised |-> FALSE, out |-> {}, names |-> <<>>,
     buckets |-> <<>>]

\* write_files(data_list, output_subdir, hex_len, is_symlink_source, source_map)
write_files(f, data_list, output_subdir, width, is_symlink_source, source_map) ==
    LET f1 == IF ~exists(f, output_subdir) THEN mkdir_parents(f, output_subdir)
              ELSE f
    IN  IF data_list = <<>>
        THEN [write_start(f1) EXCEPT
                !.out = {Msg("no_data", output_subdir[Len(output_subdir)], 0)}]
        ELSE LET total   == total_slots_of(width)
                 buckets == fill_buckets(data_list, total)
                 st      == write_loop([write_start(f1) EXCEPT !.buckets = buckets],
                                       0, total, buckets, output_subdir, width,
                                       is_symlink_source, source_map)
             IN  IF st.raised THEN st
                 ELSE [st EXCEPT !.out = st.out \cup
                          {Msg("generated", output_subdir[Len(output_subdir)], total)}]

\* generate_cf_rule: the three rewrite expressions, as path prefix,
\* substring length and suffix.
generate_cf_rule(width) ==
    <<"rules", [l |-> <<"categories", "l">>, p |-> <<"categories", "p">>,
                all |-> <<"all">>, len |-> width, ext |-> FILE_EXT]>>

(***************************************************************************)
(* gen_image.py                                                            *)
(***************************************************************************)
\* One round of the rglob loop of gen_image.py's scan_images for file k:
\* a file that cannot be opened is skipped before all_imgs.append.
scan_one_image(acc, k) ==
    LET o == images[k].orient
    IN  IF ~HAS_PILLOW
        THEN [acc EXCEPT !.all = Append(acc.all, k), !.l = Append(acc.l, k)]
        ELSE IF o = "U"
        THEN [acc EXCEPT !.out = acc.out \cup {Msg("could_not_open", "", k)}]
        ELSE [all |-> Append(acc.all, k),
              l   |-> IF o = "L" THEN Append(acc.l, k) ELSE acc.l,
              p   |-> IF o = "P" THEN Append(acc.p, k) ELSE acc.p,
              out |-> acc.out]

RECURSIVE scan_from_image(_, _)
scan_from_image(k, acc) ==
    IF k > Len(images) THEN acc
    ELSE scan_from_image(k + 1, scan_one_image(acc, k))

scan_images_image ==
    IF ~source_exists
    THEN [NoScan EXCEPT !.out = {Msg("source_missing", "", 0)}]
    ELSE scan_from_image(1, NoScan)

\* process_file: conversion with every exception caught, or a plain copy.
process_file(f, source_path, target_path) ==
    IF CONVERT_WEBP
    THEN IF HAS_PILLOW /\ conv_ok(source_path) /\ is_dir(f, parent(target_path))
         THEN [fs |-> put(f, target_path, File(WebP(source_path))),
               ok |-> TRUE, raised |-> FALSE]
         ELSE [fs |-> f, ok |-> FALSE, raised |-> FALSE]
    ELSE IF is_dir(f, parent(target_path))
         THEN [fs |-> put(f, target_path, File(Raw(source_path))),
               ok |-> TRUE, raised |-> FALSE]
         ELSE [fs |-> f, ok |-> FALSE, raised |-> TRUE]

output_ext == IF CONVERT_WEBP THEN ".webp" ELSE DEFAULT_EXT

\* The body of the second loop of write_files_prefix for slot i.
write_slot_prefix(st, i, buckets, target_dir, width) ==
    LET name        == hex_name(i, width)
        target_path == Append(target_dir, target_filename(i, width, output_ext))
        source_path == buckets[i + 1]
        c           == process_file(st.fs, source_path, target_path)
    IN  [st EXCEPT
           !.names  = Append(st.names, name),
           !.fs     = c.fs,
           !.raised = c.raised,
           !.out    = IF c.ok \/ c.raised THEN st.out
                      ELSE st.out \cup {Msg("error_converting", "", source_path)}]

RECURSIVE write_loop_prefix(_, _, _, _, _, _)
write_loop_prefix(st, i, total, buckets, target_dir, width) ==
    IF i >= total \/ st.raised THEN st
    ELSE IF total = i + 1
    THEN write_slot_prefix(st, i, buckets, target_dir, width)
    ELSE LET mid  == (i + total) \div 2
             half == write_loop_prefix(st, i, mid, buckets, target_dir, width)
         IN  IF half.raised THEN half
             ELSE write_loop_prefix(half, mid, total, buckets, target_dir, width)

\* write_files_prefix(data_list, output_dir, hex_len, subdir_name)
write_files_prefix(f, data_list, output_dir, width, subdir_name) ==
    IF data_list = <<>> THEN write_start(f)
    ELSE LET target_dir == Append(output_dir, subdir_name)
             f1         == ensure_dir(f, target_dir)
             total      == total_slots_of(width)
             buckets    == fill_buckets(data_list, total)
             st         == write_loop_prefix(
                               [write_start(f1) EXCEPT !.buckets = buckets],
                               0, total, buckets, target_dir, width)
         IN  IF st.raised THEN st
             ELSE [st EXCEPT !.out = st.out \cup {Msg("generated", subdir_name, total)}]

generate_cf_rule_image(width) ==
    <<"rules", [l |-> <<"dist", "l">>, p |-> <<"dist", "p">>,
                all |-> <<"dist", "all">>, len |-> width, ext |-> output_ext]>>

(***************************************************************************)
(* main() of either script.                                                *)
(***************************************************************************)
main_order_swapped == <<"l", "all", "p">>

\* gen.py main(): the order of the three write_files calls
main_order == <<"all", "l", "p">>

\* gen_image.py main(): the order of the three write_files_prefix calls
main_order_image == <<"l", "p", "all">>

data_of(part) ==
    IF part = "all" THEN all_imgs ELSE IF part = "l" THEN landscape ELSE portrait

\* gen.py: OUTPUT_DIR / "all", OUTPUT_DIR / "categories" / "l" | "p"
subdir_of(part) ==
    IF part = "all" THEN Append(OUTPUT_DIR, "all")
    ELSE OUTPUT_DIR \o <<"categories", part>>

\* gen_image.py: OUTPUT_DIR / subdir_name
subdir_of_image(part) == Append(OUTPUT_DIR, part)

NoSlots == [q \in Parts |-> [buckets |-> <<>>, names |-> <<>>]]

Init ==
    /\ prog \in {"gen", "gen_image"}
    /\ source_exists \in BOOLEAN
    /\ images \in (IF source_exists THEN SourceTrees ELSE {<<>>})
    /\ symlink_ok \in BOOLEAN
    /\ fs \in {EmptyTree, StaleTree}
    /\ pc = "scan"
    /\ step = 1
    /\ all_imgs = <<>>
    /\ landscape = <<>>
    /\ portrait = <<>>
    /\ item_count = 0
    /\ min_len = MIN_HEX_LEN
    /\ hex_len = 0
    /\ all_map = NoMap
    /\ slots = NoSlots
    /\ written = <<>>
    /\ stdout = {}

env == <<prog, source_exists, images, symlink_ok>>

\* main(): scan_images(SOURCE_DIR) and the three counts printed after it
Scan ==
    /\ pc = "scan"
    /\ LET r == IF prog = "gen" THEN scan_images ELSE scan_images_image
       IN  /\ all_imgs' = r.all
           /\ landscape' = r.l
           /\ portrait' = r.p
           /\ stdout' = stdout \cup r.out \cup
                        {Msg("found", "all", Len(r.all)),
                         Msg("found", "l", Len(r.l)),
                         Msg("found", "p", Len(r.p))}
    /\ pc' = "check"
    /\ UNCHANGED <<env, fs, step, item_count, min_len, hex_len, all_map, slots, written>>

\* main(): len(all_imgs) == 0 -> sys.exit(1)
NoImages ==
    /\ pc = "check"
    /\ Len(all_imgs) = 0
    /\ stdout' = stdout \cup {Msg("no_images", "", 0)}
    /\ pc' = "exit1"
    /\ UNCHANGED <<env, fs, step, all_imgs, landscape, portrait, item_count,
                   min_len, hex_len, all_map, slots, written>>

\* main(): hex_len = calculate_hex_len(len(all_imgs), MIN_HEX_LEN)
Size ==
    /\ pc = "check"
    /\ Len(all_imgs) # 0
    /\ item_count' = Len(all_imgs)
    /\ min_len' = MIN_HEX_LEN
    /\ hex_len' = calculate_hex_len(Len(all_imgs), MIN_HEX_LEN)
    /\ pc' = "ensure"
    /\ UNCHANGED <<env, fs, step, all_imgs, landscape, portrait, all_map, slots,
                   written, stdout>>

\* main(): ensure_dir(OUTPUT_DIR)
EnsureOutput ==
    /\ pc = "ensure"
    /\ fs' = ensure_dir(fs, OUTPUT_DIR)
    /\ pc' = "write"
    /\ UNCHANGED <<env, step, all_imgs, landscape, portrait, item_count, min_len,
                   hex_len, all_map, slots, written, stdout>>

\* what a write call leaves behind, and where main() goes next
AfterWrite(part, r) ==
    /\ fs' = r.fs
    /\ stdout' = stdout \cup r.out
    /\ slots' = [slots EXCEPT ![part] = [buckets |-> r.buckets, names |-> r.names]]
    /\ IF r.raised
       THEN pc' = "aborted" /\ written' = written /\ step' = step
       ELSE /\ written' = Append(written, part)
            /\ step' = step + 1
            /\ pc' = IF step = Len(main_order) THEN "emit" ELSE "write"

\* gen.py main(): the next of the three write_files calls
WriteFiles ==
    /\ pc = "write"
    /\ prog = "gen"
    /\ LET part == main_order[step]
           r    == write_files(fs, data_of(part), subdir_of(part), hex_len,
                               part = "all", IF part = "all" THEN NoMap ELSE all_map)
       IN  /\ AfterWrite(part, r)
           /\ all_map' = IF part = "all" THEN r.map ELSE all_map
    /\ UNCHANGED <<env, all_imgs, landscape, portrait, item_count, min_len, hex_len>>

\* gen_image.py main(): the next of the three write_files_prefix calls
WriteFilesPrefix ==
    /\ pc = "write"
    /\ prog = "gen_image"
    /\ LET part == main_order_image[step]
           r    == write_files_prefix(fs, data_of(part), OUTPUT_DIR, hex_len, part)
       IN  AfterWrite(part, r)
    /\ UNCHANGED <<env, all_imgs, landscape, portrait, item_count, min_len, hex_len,
                   all_map>>

\* gen.py main(): rules.txt inside OUTPUT_DIR
EmitRules ==
    /\ pc = "emit"
    /\ prog = "gen"
    /\ fs' = put(fs, Append(OUTPUT_DIR, "rules.txt"), File(generate_cf_rule(hex_len)))
    /\ stdout' = stdout \cup {Msg("done", "", 0)}
    /\ pc' = "done"
    /\ UNCHANGED <<env, step, all_imgs, landscape, portrait, item_count, min_len,
                   hex_len, all_map, slots, written>>

\* gen_image.py main(): rules.txt, CNAME and index.html in the working directory
EmitRulesImage ==
    /\ pc = "emit"
    /\ prog = "gen_image"
    /\ fs' = put(put(put(fs, <<"rules.txt">>, File(generate_cf_rule_image(hex_len))),
                     <<"CNAME">>, File(<<"cname", 0>>)),
                 <<"index.html">>, File(<<"index", 0>>))
    /\ stdout' = stdout \cup {Msg("done", "", 0)}
    /\ pc' = "done"
    /\ UNCHANGED <<env, step, all_imgs, landscape, portrait, item_count, min_len,
                   hex_len, all_map, slots, written>>

Next ==
    \/ Scan
    \/ NoImages
    \/ Size
    \/ EnsureOutput
    \/ WriteFiles
    \/ WriteFilesPrefix
    \/ EmitRules
    \/ EmitRulesImage

Spec == Init /\ [][Next]_vars

(***************************************************************************)
(* The sizer on its own: calculate_hex_len applied to a count and a floor  *)
(* drawn from 0..MaxCount and 1..MaxFloor.                                 *)
(***************************************************************************)
InitSizer ==
    /\ prog = "gen"
    /\ source_exists = FALSE
    /\ images = <<>>
    /\ symlink_ok = TRUE
    /\ fs = EmptyTree
    /\ pc = "sizer"
    /\ step = 1
    /\ all_imgs = <<>>
    /\ landscape = <<>>
    /\ portrait = <<>>
    /\ item_count \in 0..MaxCount
    /\ min_len \in 1..MaxFloor
    /\ hex_len = 0
    /\ all_map = NoMap
    /\ slots = NoSlots
    /\ written = <<>>
    /\ stdout = {}

SizerApply ==
    /\ pc = "sizer"
    /\ hex_len' = calculate_hex_len(item_count, min_len)
    /\ pc' = "sized"
    /\ UNCHANGED <<env, fs, step, all_imgs, landscape, portrait, item_count,
                   min_len, all_map, slots, written, stdout>>

NextSizer == SizerApply

SpecSizer == InitSizer /\ [][NextSizer]_vars

(***************************************************************************)
(* Vocabulary of the properties.                                           *)
(***************************************************************************)
Range(s) == {s[k] : k \in 1..Len(s)}

Capacity == Pow(HexBase, hex_len)

Categories == {"l", "p"}

PartDir(part) == IF prog = "gen" THEN subdir_of(part) ELSE subdir_of_image(part)

PartExt == IF prog = "gen" THEN FILE_EXT ELSE output_ext

\* the path of address a in a partition's output location
SlotPath(part, a) == Append(PartDir(part), target_filename(a, hex_len, PartExt))

\* the item the last fill of a partition assigned to address a
SlotItem(part, a) == slots[part].buckets[a + 1]

Distributed(part) == slots[part].buckets # <<>>

Finished(part) == part \in Range(written)

Addresses == 0..(Capacity - 1)

IsLowerHex(c) == \E d \in 1..HexBase : LowerHex[d] = c

DigitValue(c) == (CHOOSE d \in 1..HexBase : LowerHex[d] = c) - 1

RECURSIVE ParseHex(_)
ParseHex(chars) ==
    IF chars = <<>> THEN 0
    ELSE HexBase * ParseHex(SubSeq(chars, 1, Len(chars) - 1))
         + DigitValue(chars[Len(chars)])

\* the paths of the output tree that hold their own copy of an item's bytes
OwnersOf(x) == {q \in DOMAIN fs : fs[q] = File(WebP(x))}

\* the addresses of a partition the fill assigned to item x
AddressesOf(part, x) ==
    IF Distributed(part) THEN {a \in Addresses : SlotItem(part, a) = x} ELSE {}

Highest(S) == CHOOSE a \in S : \A b \in S : b <= a

(***************************************************************************)
(* Properties.                                                             *)
(***************************************************************************)
\* C1 (coverage): whenever the bucket fill of write_files or
\* write_files_prefix has run on a non-empty item list, it has produced
\* exactly 16^hex_len buckets; the k-th name rendered is the lowercase
\* hexadecimal numeral of address k-1 with exactly hex_len digits, so the
\* names are pairwise distinct and every address of [0, 16^hex_len) is
\* named exactly once when the call has returned.
Coverage ==
    \A part \in Parts :
        Distributed(part) =>
            LET names == slots[part].names
            IN  /\ Len(slots[part].buckets) = Capacity
                /\ Len(names) <= Capacity
                /\ Finished(part) => Len(names) = Capacity
                /\ \A k \in 1..Len(names) :
                       /\ Len(names[k]) = hex_len
                       /\ \A j \in 1..Len(names[k]) : IsLowerHex(names[k][j])
                       /\ ParseHex(names[k]) = k - 1
                /\ Cardinality({Join(names[k]) : k \in 1..Len(names)}) = Len(names)

\* C1 witness: a run that needed two hex digits has filled and named all
\* 256 addresses of a category partition.
CoverageWitness ==
    /\ hex_len = 2
    /\ Finished("l")
    /\ Len(slots["l"].buckets) = 256
    /\ Len(slots["l"].names) = 256
    /\ slots["l"].names[256] = <<"f", "f">>

\* C2 (cyclic correctness): the item the fill assigns to address a is
\* data_list[a mod n], in input order; and once the call has returned,
\* the artifact at the name of address a holds the bytes of that item
\* whenever the item's conversion succeeds.
CyclicCorrectness ==
    \A part \in Parts :
        Distributed(part) =>
            LET data == data_of(part)
                n    == Len(data)
            IN  /\ n >= 1
                /\ \A a \in 0..(Len(slots[part].buckets) - 1) :
                       /\ SlotItem(part, a) = data[(a % n) + 1]
                       /\ (Finished(part) /\ conv_ok(data[(a % n) + 1])) =>
                              Resolve(fs, SlotPath(part, a)) = File(WebP(data[(a % n) + 1]))

\* C2 witness: three items over sixteen addresses wrap five times and the
\* last address falls on the first item again.
CyclicWitness ==
    /\ Finished("all")
    /\ Len(all_imgs) = 3
    /\ hex_len = 1
    /\ SlotItem("all", 15) = all_imgs[1]
    /\ SlotItem("all", 14) = all_imgs[3]
    /\ conv_ok(all_imgs[1])

\* C3 (sizing minimality): calculate_hex_len(0, floor) is floor, and for
\* n >= 1 calculate_hex_len(n, floor) is the smallest len >= floor with
\* 16^len >= n.
SizingMinimality ==
    pc = "sized" =>
        IF item_count = 0 THEN hex_len = min_len
        ELSE /\ hex_len >= min_len
             /\ Pow(HexBase, hex_len) >= item_count
             /\ \A len \in min_len..(hex_len - 1) : Pow(HexBase, len) < item_count

\* C3 witness: an exact power of 16 is sized to its exponent.
SizingWitness ==
    /\ pc = "sized"
    /\ item_count = 256
    /\ min_len = 1
    /\ hex_len = 2

IsPrefixOf(s, t) == Len(s) <= Len(t) /\ \A k \in 1..Len(s) : s[k] = t[k]

\* C4 as stated (phase ordering in every run): the distribution of a
\* category partition begins only after the materialization of the
\* primary partition "all" has finished.
PhaseOrderEveryRun ==
    \A part \in Categories : Distributed(part) => Finished("all")

\* C4 as amended: gen.py writes "all", then "l", then "p", a category
\* partition is distributed only after "all" has finished, and the
\* Primary Index it is handed has an entry for every item of "all";
\* gen_image.py has no Primary Index and writes "l", then "p", then "all";
\* in both, rule emission follows the third write.
PhaseOrder ==
    /\ prog = "gen" =>
           /\ IsPrefixOf(written, <<"all", "l", "p">>)
           /\ \A part \in Categories :
                  (Distributed(part) \/ Finished(part)) =>
                      /\ Finished("all")
                      /\ DOMAIN all_map = Range(all_imgs)
    /\ prog = "gen_image" =>
           /\ IsPrefixOf(written, <<"l", "p", "all">>)
           /\ all_map = NoMap
    /\ pc \in {"emit", "done"} => Len(written) = 3
    /\ pc \in {"scan", "check", "ensure"} => written = <<>>

\* C4 witness: a finished run of gen.py in which both category
\* partitions were distributed after the primary one.
PhaseOrderWitness ==
    /\ prog = "gen"
    /\ pc = "done"
    /\ written = <<"all", "l", "p">>
    /\ Distributed("l")
    /\ Distributed("p")

\* C5 as stated (alias correctness): for every address of a written
\* category partition of gen.py whose item is also in "all", the category
\* artifact resolves, through the link or the copy, to the bytes of a
\* primary artifact whose assigned item is that same item.
AliasCorrectness ==
    prog = "gen" =>
        \A part \in Categories :
            (Finished(part) /\ Distributed(part)) =>
                \A a \in Addresses :
                    LET x == SlotItem(part, a)
                        e == Resolve(fs, SlotPath(part, a))
                    IN  x \in Range(all_imgs) =>
                            /\ e.kind = "file"
                            /\ \E b \in AddressesOf("all", x) :
                                   /\ SlotPath("all", b) \in DOMAIN fs
                                   /\ fs[SlotPath("all", b)] = e

\* The part of C5 the code does keep: a category artifact of an item whose
\* conversion succeeded resolves to the bytes of that item, and every
\* link of a category partition points at an address of "all" assigned
\* to the same item.
AliasOfConvertedItems ==
    prog = "gen" =>
        \A part \in Categories :
            (Finished(part) /\ Distributed(part)) =>
                \A a \in Addresses :
                    LET x == SlotItem(part, a)
                        q == SlotPath(part, a)
                    IN  /\ conv_ok(x) => Resolve(fs, q) = File(WebP(x))
                        /\ (q \in DOMAIN fs /\ fs[q].kind = "link") =>
                               \E b \in AddressesOf("all", x) :
                                   normpath(parent(q) \o fs[q].target) = SlotPath("all", b)

\* C6 as stated (no duplication): at the end of a run, an item present in
\* several partitions has exactly one artifact owning its bytes, and every
\* other occurrence of it in the output tree is an alias of that artifact.
\* Stated for the items whose conversion succeeds, which are the items
\* that have artifacts.
NoDuplication ==
    pc = "done" =>
        \A x \in Range(all_imgs) :
            (conv_ok(x) /\ \E part \in Categories : AddressesOf(part, x) # {}) =>
                /\ Cardinality(OwnersOf(x)) = 1
                /\ \A part \in Parts : \A a \in AddressesOf(part, x) :
                       LET q == SlotPath(part, a)
                       IN  \/ q \in OwnersOf(x)
                           \/ /\ q \in DOMAIN fs
                              /\ fs[q].kind = "link"
                              /\ normpath(parent(q) \o fs[q].target) \in OwnersOf(x)

\* C6 as amended: at the end of a run an item owns one artifact per "all"
\* address assigned to it (none when its conversion fails), not exactly
\* one.  In gen.py with symbolic links, every occurrence of the item in a
\* category partition is a link to one and the same primary path, the
\* highest "all" address assigned to the item.  Under the copy fallback,
\* and in gen_image.py, the tree holds no link and every occurrence of a
\* converted item owns its bytes.
OneAliasTargetPerItem ==
    pc = "done" =>
        \A x \in Range(all_imgs) :
            LET inAll == {SlotPath("all", a) : a \in AddressesOf("all", x)}
                inCat == UNION {{SlotPath(part, a) : a \in AddressesOf(part, x)} :
                                    part \in Categories}
            IN  IF prog = "gen" /\ symlink_ok
                THEN /\ OwnersOf(x) = (IF conv_ok(x) THEN inAll ELSE {})
                     /\ \A q \in inCat :
                            /\ q \in DOMAIN fs
                            /\ fs[q].kind = "link"
                            /\ normpath(parent(q) \o fs[q].target) =
                                   SlotPath("all", Highest(AddressesOf("all", x)))
                ELSE /\ OwnersOf(x) = (IF conv_ok(x) THEN inAll \cup inCat ELSE {})
                     /\ \A q \in DOMAIN fs : fs[q].kind # "link"

\* C6 witness: a finished run of gen.py with symbolic links in which a
\* converted landscape item occupies several "all" addresses.
OneAliasTargetWitness ==
    /\ pc = "done"
    /\ prog = "gen"
    /\ symlink_ok
    /\ landscape # <<>>
    /\ conv_ok(landscape[1])
    /\ Cardinality(AddressesOf("all", landscape[1])) > 1
    /\ fs[SlotPath("l", 0)].kind = "link"

\* C7 as stated (non-fatal failures): whatever items fail conversion and
\* whether aliasing links or copies, the run is never cut short by an
\* exception, and it exits early only when no item was found.
NonFatalFailures ==
    /\ pc # "aborted"
    /\ pc = "exit1" => Len(all_imgs) = 0

\* C8 as stated (skipped artifacts): in every written partition, every
\* address assigned to an item whose conversion fails has no entry in the
\* output tree, neither file nor alias, and every address assigned to
\* another item has one.
SkippedOnFailure ==
    \A part \in Parts :
        (Finished(part) /\ Distributed(part)) =>
            \A a \in Addresses :
                IF conv_ok(SlotItem(part, a))
                THEN SlotPath(part, a) \in DOMAIN fs
                ELSE SlotPath(part, a) \notin DOMAIN fs

\* C9 as stated (empty category partition): when a category partition has
\* no item and "all" has some, the write of that category leaves no
\* directory and no file for it, its count is printed as 0, and the run is
\* not cut short.
EmptyCategory ==
    \A part \in Categories :
        (Finished(part) /\ data_of(part) = <<>> /\ all_imgs # <<>>) =>
            /\ \A q \in DOMAIN fs : ~IsPrefix(PartDir(part), q)
            /\ Msg("found", part, 0) \in stdout
            /\ pc # "aborted"

\* C10 (the fallback branch is dead in gen.py): the key length gives "all"
\* room for each of its items, every category item is an item of "all",
\* so once "all" is written the Primary Index has an entry for every item
\* of "all", and no write of a category partition takes the branch that
\* converts directly and prints "not found in all map".
NoFallback ==
    prog = "gen" =>
        /\ Range(landscape) \cup Range(portrait) \subseteq Range(all_imgs)
        /\ hex_len > 0 => Capacity >= Len(all_imgs)
        /\ Finished("all") => DOMAIN all_map = Range(all_imgs)
        /\ \A m \in stdout : m.msg # "not_in_all_map"

\* C10 witness: a finished run of gen.py with more items than one hex
\* digit addresses, whose category partitions were both aliased.
NoFallbackWitness ==
    /\ prog = "gen"
    /\ pc = "done"
    /\ Len(all_imgs) > HexBase
    /\ Distributed("l")
    /\ Distributed("p")

====
